---- MODULE Spec2Model ----
(***************************************************************************)
(* PyFluff: the connection session of FurbyConnect (src/pyfluff/furby.py). *)
(*                                                                         *)
(* One FurbyConnect instance, driven by one cooperative user task, its     *)
(* idle-keepalive asyncio task and the BLE transport (bleak).  A user call *)
(* is cut at its await points: every action is the code that runs between *)
(* two suspensions of the event loop.                                      *)
(***************************************************************************)
EXTENDS Naturals, Integers, Sequences, FiniteSets, TLC

----------------------------------------------------------------------------
(* Bounds of the model *)

\* BleakClient objects one Session may create
MaxHandles == 2
\* largest value of the `retries` keyword the callers pass
MaxRetries == 2
\* length of a scan result
MaxScan == 2

----------------------------------------------------------------------------
(* The transport's world *)

NoDevice == "none"
\* advertised devices; x1 advertises another name, x0 advertises no name
ScanDevices == {"f1", "f2", "x1", "x0"}
Handles == 1 .. MaxHandles
NoClient == 0
Channels == {"gp", "nordic", "file"}

\* d.name of a scanned device (None is modelled as "")
NameOf(d) ==
  CASE d = "f1" -> "Furby"
    [] d = "f2" -> "Furby Connect"
    [] d = "x1" -> "Speaker"
    [] OTHER -> ""

\* FURBY_NAME in name
ContainsFurby(name) == name \in {"Furby", "Furby Connect"}

\* duplicate-free scan results of length <= MaxScan
ScanResults ==
  {s \in UNION {[1 .. n -> ScanDevices] : n \in 0 .. MaxScan} :
     \A i, j \in 1 .. Len(s) : i # j => s[i] # s[j]}

----------------------------------------------------------------------------
VARIABLES
  device,        \* self.device: NoDevice or a device
  client,        \* self.client: NoClient or the handle of a BleakClient
  _connected,    \* self._connected
  _idle_task,    \* self._idle_task: "none", or the task's position
                 \*   "sleep" (in asyncio.sleep), "write" (in write_gatt_char), "done"
  idle_cancel,   \* cancel() was requested and the task has not run since
  link,          \* per handle: "new" (never opened), "live", "closed"
  handleDev,     \* per handle: the device the BleakClient was built for
  subs,          \* channels whose start_notify succeeded on self.client
  nHandles,      \* BleakClient objects created so far
  tasksStarted,  \* idle tasks created so far
  pc,            \* where the user task is suspended: "idle" between calls
  inflight,      \* channel of the user write in progress, or "none"
  args,          \* keyword arguments of the connect() call in progress / last made
  scans,         \* BleakScanner.discover calls made by the current call
  scanned,       \* what the scan of the current call returned (raw)
  attempts,      \* client.connect calls made by the current call
  closes,        \* client.disconnect calls made by the current call
  tx,            \* write_gatt_char calls made by the current call
  rssiFailed,    \* the RSSI start_notify of the current call raised
  pre,           \* snapshot taken when the current call was entered
  lastCall,      \* the user call that completed last
  ev,            \* the step just taken: [op, res]
  idleWrote,     \* channel and bytes of the last keepalive write issued
  _gp_callbacks,     \* self._gp_callbacks, in registration order
  _nordic_callbacks, \* self._nordic_callbacks, in registration order
  notif,         \* the last notification dispatched: channel, packet, the list
                 \*   when the handler was entered, the callbacks it invoked
  _transfer_ready,    \* DLCManager._transfer_ready (asyncio.Event)
  _transfer_complete, \* DLCManager._transfer_complete (asyncio.Event)
  _transfer_error,    \* DLCManager._transfer_error ("none" for None)
  queue,         \* the asyncio.Queue of the sensor stream being consumed
  up,            \* per caller of upload_dlc: where the call is, its locals
  log,           \* since the last upload_dlc began: writes made, statuses sent
  streaming,     \* a sensor_stream() generator is running
  arrived,       \* primary-channel packets delivered while it was running
  yielded,       \* the payloads it has yielded
  abandoned,     \* its consumer stopped iterating and the generator is not closed yet
  proto,         \* the last FurbyProtocol call: function, arguments, outcome
  found,         \* the last FurbyConnect.discover call: arguments, scan, outcome
  info,          \* the get_device_info call in progress / last made
  naming         \* the set_name call in progress / last made

vars == <<device, client, _connected, _idle_task, idle_cancel, link, handleDev,
          subs, nHandles, tasksStarted, pc, inflight, args, scans, scanned,
          attempts, closes, tx, rssiFailed, pre, lastCall, ev, idleWrote,
          _gp_callbacks, _nordic_callbacks, notif, _transfer_ready,
          _transfer_complete, _transfer_error, queue, up, log, streaming,
          arrived, yielded, abandoned, proto, found, info, naming>>

session == <<device, client, _connected>>
idleVars == <<_idle_task, idle_cancel, tasksStarted>>
transport == <<link, handleDev, subs, nHandles>>
counters == <<scans, scanned, attempts, closes, tx, rssiFailed>>

dispatchVars == <<_gp_callbacks, _nordic_callbacks, notif>>
\* what the session's lifecycle calls leave alone
latches == <<_transfer_ready, _transfer_complete, _transfer_error>>
uploadVars == <<up, log>>
streamVars == <<streaming, arrived, yielded, abandoned>>
queryVars == <<found, info, naming>>
rest == <<dispatchVars, latches, queue, uploadVars, streamVars, proto, queryVars>>
ext == <<idleWrote, rest>>

NoArgs == [address |-> "none", retries |-> 0]

Snapshot ==
  [conn |-> _connected, client |-> client, device |-> device, handles |-> nHandles,
   tasks |-> tasksStarted, lastCall |-> lastCall,
   live |-> client # NoClient /\ link[client] = "live"]

Ev(op, res) == [op |-> op, res |-> res]

NoWrite == [ch |-> "none", data |-> << >>]
NoNotif == [ch |-> "none", pkt |-> << >>, start |-> << >>, calls |-> << >>,
            propagated |-> FALSE]

\* the fields and observations the lifecycle does not start with
\* outcome of a call: the value returned, or the exception raised
Ok(v) == [err |-> "none", val |-> v]
Raise(e) == [err |-> e, val |-> << >>]

\* no FurbyProtocol function called yet
NoCall == [fn |-> "none", args |-> << >>, out |-> Ok(<< >>)]

\* no discover() call made yet
NoFound == [show_all |-> "absent", scan |-> << >>, out |-> Ok(<< >>)]

\* the six descriptors get_device_info reads, in the order it reads them
InfoFields ==
  <<"manufacturer", "model_number", "serial_number", "hardware_revision",
    "firmware_revision", "software_revision">>

\* a field of FurbyInfo that is still None
Unset == [set |-> FALSE, val |-> << >>]

\* FurbyInfo(): every field None
FurbyInfo == [i \in 1 .. Len(InfoFields) |-> Unset]

\* no get_device_info() call made yet: pc is the read in progress, tried the
\* reads attempted, failed the reads whose try block raised
NoInfo == [pc |-> 0, tried |-> {}, failed |-> {}, result |-> FurbyInfo, out |-> "none"]

\* no set_name() call made yet: writes are the packets handed to the
\* transport on the primary channel, in order; conn tells whether the
\* Session was connected when the call was made
NoNaming == [pc |-> "idle", id |-> 0, conn |-> FALSE, writes |-> << >>, out |-> "none"]

\* the coroutines that call upload_dlc on the one DLCManager
Uploaders == {"u1", "u2"}

\* no upload_dlc call made yet
NoUpload ==
  [pc |-> "idle", size |-> 0, offset |-> 0, chunk_count |-> 0, res |-> "none",
   gp0 |-> << >>, cmd |-> << >>, chunks |-> << >>]

ExtInit ==
  /\ idleWrote = NoWrite
  /\ _gp_callbacks = << >>
  /\ _nordic_callbacks = << >>
  /\ notif = NoNotif
  /\ _transfer_ready = FALSE
  /\ _transfer_complete = FALSE
  /\ _transfer_error = "none"
  /\ queue = << >>
  /\ up = [t \in Uploaders |-> NoUpload]
  /\ log = << >>
  /\ streaming = FALSE
  /\ arrived = << >>
  /\ yielded = << >>
  /\ abandoned = FALSE
  /\ proto = NoCall
  /\ found = NoFound
  /\ info = NoInfo
  /\ naming = NoNaming

\* FurbyConnect.__init__, with or without a BLEDevice
Init ==
  /\ ExtInit
  /\ device \in {NoDevice, "f1"}
  /\ client = NoClient
  /\ _connected = FALSE
  /\ _idle_task = "none"
  /\ idle_cancel = FALSE
  /\ link = [h \in Handles |-> "new"]
  /\ handleDev = [h \in Handles |-> NoDevice]
  /\ subs = {}
  /\ nHandles = 0
  /\ tasksStarted = 0
  /\ pc = "idle"
  /\ inflight = "none"
  /\ args = NoArgs
  /\ scans = 0
  /\ scanned = << >>
  /\ attempts = 0
  /\ closes = 0
  /\ tx = 0
  /\ rssiFailed = FALSE
  /\ pre = [conn |-> FALSE, client |-> NoClient, device |-> device, handles |-> 0, tasks |-> 0,
            lastCall |-> "none", live |-> FALSE]
  /\ lastCall = "none"
  /\ ev = Ev("init", "ok")

----------------------------------------------------------------------------
(* Pure helpers of the session *)

\* client.is_connected
is_connected(h) == h # NoClient /\ link[h] = "live"

\* mutant: the property trusts the flag and does not ask the transport
connected_flagOnly == _connected /\ client # NoClient

\* FurbyConnect.connected (property)
connected == _connected /\ client # NoClient /\ is_connected(client)

\* mutant: the name filter is left out
discover_unfiltered(devices) == devices

\* the list comprehension of FurbyConnect.discover
discover(devices) == SelectSeq(devices, LAMBDA d : NameOf(d) # "" /\ ContainsFurby(NameOf(d)))

----------------------------------------------------------------------------
(* connect(self, timeout)                              furby.py 72-114   *)

\* def connect(self, timeout: float = 10.0): the keywords the signature binds.
\* A call passing address= or retries= raises TypeError before the body runs.
AcceptsKeywords(address, retries) == address = "none" /\ retries = 0

\* mutant: the early return is missing
AlreadyConnected_skipped == FALSE

\* if self._connected: return
AlreadyConnected == _connected

\* self.client = BleakClient(self.device, timeout=timeout), then the call of
\* self.client.connect(), on which the user task suspends
OpenClient(dev, made) ==
  /\ nHandles' = nHandles + 1
  /\ client' = nHandles + 1
  /\ handleDev' = [handleDev EXCEPT ![nHandles + 1] = dev]
  /\ subs' = {}
  /\ attempts' = made + 1
  /\ pc' = "conn"

\* the call completes: normally (res = "ok") or by raising res
Return(op, res) ==
  /\ pc' = "idle"
  /\ lastCall' = op
  /\ ev' = Ev(op, res)

\* the call goes on, suspended at pc'
Pending(op) ==
  /\ lastCall' = lastCall
  /\ ev' = Ev(op, "pending")

\* entry of connect() up to its first await
ConnectCall(address, retries) ==
  /\ pc = "idle"
  /\ retries = 0 \/ address # "none"      \* the callers pass retries with an address
  /\ \/ ~AcceptsKeywords(address, retries)
     \/ AlreadyConnected
     \/ nHandles < MaxHandles
  /\ args' = [address |-> address, retries |-> retries]
  /\ pre' = Snapshot
  /\ closes' = 0 /\ tx' = 0 /\ rssiFailed' = FALSE /\ scanned' = << >>
  /\ UNCHANGED <<_connected, idleVars, link, inflight>>
  /\ IF ~AcceptsKeywords(address, retries)
     THEN /\ Return("connect", "TypeError")
          /\ scans' = 0 /\ attempts' = 0
          /\ UNCHANGED <<device, client, handleDev, subs, nHandles>>
     ELSE IF AlreadyConnected
     THEN /\ Return("connect", "ok")
          /\ scans' = 0 /\ attempts' = 0
          /\ UNCHANGED <<device, client, handleDev, subs, nHandles>>
     ELSE IF device = NoDevice
     THEN /\ pc' = "scan"
          /\ Pending("connect")
          /\ scans' = 1 /\ attempts' = 0
          /\ UNCHANGED <<device, client, handleDev, subs, nHandles>>
     ELSE /\ OpenClient(device, 0)
          /\ Pending("connect")
          /\ scans' = 0
          /\ UNCHANGED device
  /\ UNCHANGED ext

\* the event loop runs a cancelled task before it resumes a coroutine that
\* suspended after the cancel() call (callbacks run in FIFO order)
Resumable == ~idle_cancel

\* devices = await self.discover(timeout) returns the scan's result
ScanDone(devices) ==
  /\ pc = "scan"
  /\ Resumable
  /\ scanned' = devices
  /\ UNCHANGED <<_connected, idleVars, link, inflight, args, scans,
                 closes, tx, rssiFailed, pre>>
  /\ IF discover(devices) = << >>
     THEN /\ Return("connect", "NoFurby")
          /\ UNCHANGED <<device, client, handleDev, subs, nHandles, attempts>>
     ELSE /\ device' = discover(devices)[1]
          /\ OpenClient(discover(devices)[1], attempts)
          /\ Pending("connect")
  /\ UNCHANGED ext

\* await self.client.connect() returns (ok) or raises
ConnDone(ok) ==
  /\ pc = "conn"
  /\ Resumable
  /\ UNCHANGED <<device, client, idleVars, handleDev, subs, nHandles, inflight,
                 args, counters, pre>>
  /\ IF ok
     THEN /\ link' = [link EXCEPT ![client] = "live"]
          /\ _connected' = TRUE
          /\ pc' = "sub_gp"
          /\ Pending("connect")
     ELSE /\ link' = link
          /\ _connected' = FALSE
          /\ Return("connect", "ConnectionFailed")
  /\ UNCHANGED ext

\* mutant: a finished task is taken for a running one
IdleTaskAbsent_noDoneCheck == _idle_task = "none"

\* self._idle_task is None or self._idle_task.done()
IdleTaskAbsent == _idle_task \in {"none", "done"}

\* _start_idle(): create the keepalive task unless one exists that is not done
StartIdle ==
  IF IdleTaskAbsent
  THEN /\ _idle_task' = "sleep"
       /\ idle_cancel' = FALSE
       /\ tasksStarted' = tasksStarted + 1
  ELSE UNCHANGED idleVars

\* except Exception: self._connected = False; raise RuntimeError(...)
ConnectRaises ==
  /\ _connected' = FALSE
  /\ Return("connect", "ConnectionFailed")

\* await start_notify(GENERALPLUS_LISTEN, ...) returns or raises
SubGpDone(ok) ==
  /\ pc = "sub_gp"
  /\ Resumable
  /\ UNCHANGED <<device, client, idleVars, link, handleDev, nHandles, inflight,
                 args, counters, pre>>
  /\ IF ok
     THEN /\ subs' = subs \cup {"gp"}
          /\ pc' = "sub_nordic"
          /\ Pending("connect")
          /\ UNCHANGED _connected
     ELSE /\ subs' = subs
          /\ ConnectRaises
  /\ UNCHANGED ext

\* await start_notify(NORDIC_LISTEN, ...) returns or raises
SubNordicDone(ok) ==
  /\ pc = "sub_nordic"
  /\ Resumable
  /\ UNCHANGED <<device, client, idleVars, link, handleDev, nHandles, inflight,
                 args, counters, pre>>
  /\ IF ok
     THEN /\ subs' = subs \cup {"nordic"}
          /\ pc' = "sub_rssi"
          /\ Pending("connect")
          /\ UNCHANGED _connected
     ELSE /\ subs' = subs
          /\ ConnectRaises
  /\ UNCHANGED ext

\* mutant: the RSSI start_notify is not wrapped in try/except
RssiFailureIsCaught_propagates == FALSE

\* the optional RSSI subscription raised: logged in _subscribe_notifications,
\* which returns normally (TRUE), so connect() goes on
RssiFailureIsCaught == TRUE

\* await start_notify(RSSI_LISTEN, ...) returns or raises; then _start_idle()
SubRssiDone(ok) ==
  /\ pc = "sub_rssi"
  /\ Resumable
  /\ UNCHANGED <<device, client, link, handleDev, nHandles, inflight, args,
                 scans, scanned, attempts, closes, tx, pre>>
  /\ subs' = IF ok THEN subs \cup {"rssi"} ELSE subs
  /\ rssiFailed' = ~ok
  /\ IF ok \/ RssiFailureIsCaught
     THEN /\ StartIdle
          /\ Return("connect", "ok")
          /\ UNCHANGED _connected
     ELSE /\ ConnectRaises
          /\ UNCHANGED idleVars
  /\ UNCHANGED ext

----------------------------------------------------------------------------
(* disconnect(self)                                    furby.py 116-131  *)

\* if not self.client: return
NoClientYet == client = NoClient

\* _stop_idle(): cancel the task if there is one that is not done
StopIdle ==
  /\ idle_cancel' = IF _idle_task \in {"sleep", "write"} THEN TRUE ELSE idle_cancel
  /\ UNCHANGED <<_idle_task, tasksStarted>>

\* mutant: the transport is closed without asking whether it is open
MustClose_always == TRUE

\* if self.client.is_connected: await self.client.disconnect()
MustClose == is_connected(client)

\* entry of disconnect() up to the await of client.disconnect(), or to its end
DisconnectCall ==
  /\ pc = "idle"
  /\ pre' = Snapshot
  /\ args' = NoArgs
  /\ scans' = 0 /\ attempts' = 0 /\ tx' = 0 /\ rssiFailed' = FALSE
  /\ scanned' = << >>
  /\ UNCHANGED <<device, client, transport, inflight>>
  /\ IF NoClientYet
     THEN /\ Return("disconnect", "ok")
          /\ closes' = 0
          /\ UNCHANGED <<_connected, idleVars>>
     ELSE /\ StopIdle
          /\ IF MustClose
             THEN /\ closes' = 1
                  /\ pc' = "disc"
                  /\ Pending("disconnect")
                  /\ UNCHANGED _connected
             ELSE /\ closes' = 0
                  /\ _connected' = FALSE
                  /\ Return("disconnect", "ok")
  /\ UNCHANGED ext

\* await self.client.disconnect() returns; self._connected = False
DisconnectDone ==
  /\ pc = "disc"
  /\ Resumable
  /\ link' = [link EXCEPT ![client] = "closed"]
  /\ _connected' = FALSE
  /\ Return("disconnect", "ok")
  /\ UNCHANGED <<device, client, idleVars, handleDev, subs, nHandles, inflight,
                 args, counters, pre>>
  /\ UNCHANGED ext

----------------------------------------------------------------------------
(* _write_gp / _write_nordic / _write_file             furby.py 211-254  *)

WriteOp(ch) ==
  CASE ch = "gp" -> "_write_gp"
    [] ch = "nordic" -> "_write_nordic"
    [] OTHER -> "_write_file"

WriteOps == {WriteOp(ch) : ch \in Channels}

\* if not self.client or not self.connected: raise RuntimeError("Not connected to Furby")
WriteRefused == client = NoClient \/ ~connected

\* entry of a write up to the await of client.write_gatt_char
WriteCall(ch) ==
  /\ pc = "idle"
  /\ pre' = Snapshot
  /\ args' = NoArgs
  /\ scans' = 0 /\ attempts' = 0 /\ closes' = 0 /\ rssiFailed' = FALSE
  /\ scanned' = << >>
  /\ UNCHANGED <<session, idleVars, transport>>
  /\ IF WriteRefused
     THEN /\ Return(WriteOp(ch), "NotConnected")
          /\ tx' = 0
          /\ inflight' = "none"
     ELSE /\ tx' = 1
          /\ inflight' = ch
          /\ pc' = "wr"
          /\ Pending(WriteOp(ch))
  /\ UNCHANGED ext

\* await self.client.write_gatt_char(...) returns or raises
WriteDone(ok) ==
  /\ pc = "wr"
  /\ Resumable
  /\ inflight' = "none"
  /\ Return(WriteOp(inflight), IF ok THEN "ok" ELSE "TransportError")
  /\ UNCHANGED <<session, idleVars, transport, args, counters, pre>>
  /\ UNCHANGED ext

----------------------------------------------------------------------------
(* _idle_loop, run as an asyncio task                  furby.py 201-209  *)

\* asyncio.sleep(IDLE_INTERVAL) elapses; if self.connected the task enters
\* _write_gp(bytes([0x00])) and suspends in write_gatt_char
IdleTick ==
  /\ _idle_task = "sleep"
  /\ ~idle_cancel
  /\ _idle_task' = IF connected THEN "write" ELSE "sleep"
  /\ ev' = Ev("_idle_loop", IF connected THEN "write" ELSE "skip")
  /\ idleWrote' = IF connected THEN [ch |-> "gp", data |-> <<0>>] ELSE idleWrote
  /\ UNCHANGED <<session, idle_cancel, tasksStarted, transport, pc, inflight,
                 args, counters, pre, lastCall>>
  /\ UNCHANGED rest

\* the keepalive write returns, or raises: only CancelledError is caught, so
\* any other exception ends the task
IdleWriteDone(ok) ==
  /\ _idle_task = "write"
  /\ ~idle_cancel
  /\ _idle_task' = IF ok THEN "sleep" ELSE "done"
  /\ ev' = Ev("_idle_loop", IF ok THEN "written" ELSE "died")
  /\ UNCHANGED <<session, idle_cancel, tasksStarted, transport, pc, inflight,
                 args, counters, pre, lastCall>>
  /\ UNCHANGED ext

\* the cancelled task runs: CancelledError is thrown at its await and caught
IdleCancelled ==
  /\ idle_cancel
  /\ _idle_task \in {"sleep", "write"}
  /\ _idle_task' = "done"
  /\ idle_cancel' = FALSE
  /\ ev' = Ev("_idle_loop", "cancelled")
  /\ UNCHANGED <<session, tasksStarted, transport, pc, inflight, args, counters,
                 pre, lastCall>>
  /\ UNCHANGED ext

\* IDLE_INTERVAL passes while there is no keepalive task to wake: the task
\* was never started, or it has ended (cancelled, or killed by an exception)
IntervalPasses ==
  /\ _idle_task \in {"none", "done"}
  /\ ev' = Ev("clock", "interval")
  /\ UNCHANGED <<session, idleVars, transport, pc, inflight, args, counters,
                 pre, lastCall>>
  /\ UNCHANGED ext

----------------------------------------------------------------------------
(* The transport *)

\* the BLE link of a handle is lost (device out of range, powered off)
LinkDrop(h) ==
  /\ link[h] = "live"
  /\ link' = [link EXCEPT ![h] = "closed"]
  /\ ev' = Ev("transport", "drop")
  /\ UNCHANGED <<session, idleVars, handleDev, subs, nHandles, pc, inflight,
                 args, counters, pre, lastCall>>
  /\ UNCHANGED ext

----------------------------------------------------------------------------
Next ==
  \/ \E a \in {"none", "addr"}, r \in 0 .. MaxRetries : ConnectCall(a, r)
  \/ \E s \in ScanResults : ScanDone(s)
  \/ \E ok \in BOOLEAN : ConnDone(ok)
  \/ \E ok \in BOOLEAN : SubGpDone(ok)
  \/ \E ok \in BOOLEAN : SubNordicDone(ok)
  \/ \E ok \in BOOLEAN : SubRssiDone(ok)
  \/ DisconnectCall
  \/ DisconnectDone
  \/ \E ch \in Channels : WriteCall(ch)
  \/ \E ok \in BOOLEAN : WriteDone(ok)
  \/ IdleTick
  \/ \E ok \in BOOLEAN : IdleWriteDone(ok)
  \/ IdleCancelled
  \/ IntervalPasses
  \/ \E h \in Handles : LinkDrop(h)

Spec == Init /\ [][Next]_vars

----------------------------------------------------------------------------
(* Vocabulary of the properties, written on the raw state *)

LiveHandles == {h \in Handles : link[h] = "live"}

\* a scanned device whose advertised name contains the product token
IsFurby(d) == d \in {"f1", "f2"}

FurbiesIn(s) == {i \in 1 .. Len(s) : IsFurby(s[i])}

\* the first Furby of a scan result that holds one
FirstFurby(s) == s[CHOOSE i \in FurbiesIn(s) : \A j \in FurbiesIn(s) : i <= j]

\* no transport link was ever opened by the Session
NeverLinked == \A h \in Handles : link[h] = "new"

\* a connect() call made the way the signature allows: connect(timeout)
PlainConnect == ev.op = "connect" /\ args = NoArgs

\* the Session was Connected (flag set, link up) when the current call was made
WasConnected == pre.conn /\ pre.client # NoClient /\ pre.live

----------------------------------------------------------------------------
(* C1 .. C10: connection lifecycle *)

\* C1: connect() on a Session that is already Connected is a no-op: it returns
\* at once, scans nothing, opens no transport handle, starts no keepalive task,
\* and the Session holds the same single handle as before.
C1_ConnectWhenConnectedIsNoOp ==
  (PlainConnect /\ pre.conn) =>
     /\ ev.res = "ok"
     /\ pc = "idle"
     /\ scans = 0
     /\ attempts = 0
     /\ nHandles = pre.handles
     /\ client = pre.client
     /\ client # NoClient
     /\ tasksStarted = pre.tasks
     /\ (link[client] = "live") = pre.live
     /\ _connected

C1_Witness ==
  PlainConnect /\ ev.res = "ok" /\ pre.conn /\ pre.live /\ _idle_task = "sleep"

\* C2: at most one transport link opened by the Session is live at any time.
C2_AtMostOneLiveLink == Cardinality(LiveHandles) <= 1

\* C3: a connect(address, timeout, retries) call fails only with
\* ConnectionFailed and only after `retries` transport connect attempts.
C3_FailsOnlyAfterAllRetries ==
  (ev.op = "connect" /\ args.retries > 0 /\ ev.res \notin {"ok", "pending"}) =>
     /\ ev.res = "ConnectionFailed"
     /\ attempts = args.retries

\* C4: with a target (address argument or device) connect() scans nothing and
\* reaches the transport connect; without one it scans once and connects to
\* the first discovered Furby.
C4_TargetBypassesScan ==
  (ev.op = "connect" /\ ~pre.conn) =>
     IF args.address # "none" \/ pre.device # NoDevice
     THEN scans = 0 /\ attempts >= 1
     ELSE /\ scans = 1
          /\ attempts >= 1 => handleDev[client] = FirstFurby(scanned)

\* C5: when no target is given and the scan holds no Furby, connect() fails
\* with ConnectionFailed (no Furby found) without any transport connect
\* attempt, and the Session is Disconnected, without handle or keepalive task.
C5_EmptyScanFailsCleanly ==
  (ev.op = "connect" /\ scans = 1 /\ pc # "scan" /\ FurbiesIn(scanned) = {}) =>
     /\ ev.res = "NoFurby"
     /\ pc = "idle"
     /\ attempts = 0
     /\ ~_connected
     /\ client = NoClient
     /\ nHandles = 0
     /\ LiveHandles = {}
     /\ _idle_task = "none"

C5_Witness ==
  ev = Ev("connect", "NoFurby") /\ scanned # << >> /\ FurbiesIn(scanned) = {}

C7_RssiFailureNotFatal ==
  (ev.op = "connect" /\ rssiFailed) =>
     /\ ev.res = "ok"
     /\ _connected
     /\ subs = {"gp", "nordic"}
     /\ _idle_task = "sleep"
     /\ ~idle_cancel

C7_Witness == ev = Ev("connect", "ok") /\ rssiFailed

C9_CloseAfterIdleTerminated ==
  pc = "disc" => _idle_task \in {"none", "done"}

\* C10: a write on any of the three channels made while the Session is not
\* Connected fails with NotConnected and issues no transport write.
C10_WriteWhenNotConnectedRefused ==
  (ev.op \in WriteOps /\ ~WasConnected) =>
     /\ ev.res = "NotConnected"
     /\ tx = 0
     /\ pc = "idle"
     /\ inflight = "none"

C10_Witness ==
  ev.op \in WriteOps /\ ev.res = "NotConnected" /\ pre.conn /\ ~pre.live

----------------------------------------------------------------------------
(* C11: idle keepalive *)

\* a keepalive interval has just elapsed, with or without a task to wake
IntervalElapsed ==
  \/ ev.op = "_idle_loop" /\ ev.res \in {"write", "skip"}
  \/ ev = Ev("clock", "interval")

\* the Session is in its Connected state: connect() has returned, no
\* disconnect() has begun, and the link is up
ConnectedNow ==
  /\ _connected
  /\ client # NoClient
  /\ link[client] = "live"
  /\ pc \notin {"scan", "conn", "sub_gp", "sub_nordic", "sub_rssi", "disc"}

\* C11: every keepalive interval that elapses while the Session is Connected
\* produces one write of the byte 0x00 on the primary channel; an interval
\* that elapses while it is not Connected (before connect, once disconnect()
\* has begun, after the link dropped) produces no write.
C11_OneKeepalivePerInterval ==
  IntervalElapsed =>
     IF ConnectedNow
     THEN ev = Ev("_idle_loop", "write") /\ idleWrote = [ch |-> "gp", data |-> <<0>>]
     ELSE ev.res # "write"

----------------------------------------------------------------------------
(* Notification dispatch                               furby.py 159-187  *)

\* callbacks a caller may register: "a" returns, "r" raises, "x" removes
\* itself from the list it is called from (a one-shot listener), "p"
\* registers the helper "q" on that list unless it is registered already
UserCallbacks == {"a", "r", "x", "p"}

\* callbacks a caller registers, over both channel lists
MaxCallbacks == 3

\* opcodes of inbound packets (GeneralPlusResponse)
FURBY_MESSAGE == 32
SENSOR_STATUS == 33
FILE_TRANSFER_MODE == 36

\* FileTransferMode
FILE_ALREADY_EXISTS == 1
READY_TO_RECEIVE == 2
FILE_TRANSFER_TIMEOUT == 3
READY_TO_APPEND == 4
FILE_RECEIVED_OK == 5
FILE_RECEIVED_ERROR == 6

Range(q) == {q[i] : i \in 1 .. Len(q)}

Min(a, b) == IF a < b THEN a ELSE b

\* list.remove(x): drops the first element equal to x
RemoveFirst(q, x) ==
  LET i == CHOOSE k \in 1 .. Len(q) : q[k] = x /\ \A j \in 1 .. k - 1 : q[j] # x
  IN SubSeq(q, 1, i - 1) \o SubSeq(q, i + 1, Len(q))

\* DLCManager._file_transfer_callback(data)
FileTransferCallback(d, data) ==
  IF Len(data) < 2 \/ data[1] # FILE_TRANSFER_MODE THEN d
  ELSE CASE data[2] = READY_TO_RECEIVE -> [d EXCEPT !.ready = TRUE]
         [] data[2] = FILE_RECEIVED_OK -> [d EXCEPT !.complete = TRUE]
         [] data[2] = FILE_RECEIVED_ERROR ->
              [d EXCEPT !.error = "File transfer failed", !.complete = TRUE]
         [] data[2] = FILE_TRANSFER_TIMEOUT ->
              [d EXCEPT !.error = "File transfer timeout", !.complete = TRUE]
         [] OTHER -> d      \* other modes are logged, unknown ones warned about

\* the test of sensor_callback without its opcode comparison
IsSensorPacket_anyOpcode(data) == Len(data) > 0

\* len(data) > 0 and data[0] == GeneralPlusResponse.SENSOR_STATUS.value
IsSensorPacket(data) == Len(data) > 0 /\ data[1] = SENSOR_STATUS

\* sensor_callback(data) of FurbyConnect.sensor_stream
SensorCallback(d, data) ==
  IF IsSensorPacket(data)
  THEN [d EXCEPT !.queue = Append(@, data)]
  ELSE d

\* callback(data) for the list element cb
Invoke(cb, d, data) ==
  CASE cb = "r" -> [d EXCEPT !.raised = TRUE]
    [] cb = "x" -> [d EXCEPT !.list = RemoveFirst(@, "x")]
    [] cb = "p" -> [d EXCEPT !.list = IF "q" \in Range(@) THEN @ ELSE Append(@, "q")]
    [] cb = "ft" -> FileTransferCallback(d, data)
    [] cb = "sensor" -> SensorCallback(d, data)
    [] OTHER -> d

\* mutant: callback(data) is called outside any try
HandlerCatches_not == FALSE

\* try: callback(data) / except Exception: logger.error(...)
HandlerCatches == TRUE

\* for callback in self._gp_callbacks: the list iterator keeps an index into
\* the live list, so the loop sees every change the callbacks make to it
RECURSIVE Iterate(_, _, _)
Iterate(d, i, data) ==
  IF i > Len(d.list) THEN d
  ELSE LET d1 == Invoke(d.list[i], [d EXCEPT !.calls = Append(@, d.list[i])], data)
       IN IF d1.raised /\ ~HandlerCatches
          THEN [d1 EXCEPT !.propagated = TRUE]
          ELSE Iterate([d1 EXCEPT !.raised = FALSE], i + 1, data)

\* what a handler run starts from
Dispatch(list) ==
  [list |-> list, calls |-> << >>, raised |-> FALSE, propagated |-> FALSE,
   ready |-> _transfer_ready, complete |-> _transfer_complete,
   error |-> _transfer_error, queue |-> queue]

\* some upload_dlc call has registered its callback and not yet returned
UploadInFlight == \E t \in Uploaders : up[t].pc # "idle"

\* a file-transfer status packet the coordinator acts on
IsStatus(data) ==
  /\ Len(data) >= 2
  /\ data[1] = FILE_TRANSFER_MODE
  /\ data[2] \in {READY_TO_RECEIVE, FILE_TRANSFER_TIMEOUT, FILE_RECEIVED_OK,
                  FILE_RECEIVED_ERROR}

\* entries of the log: a write made by upload_dlc, a status the device sent
Wrote(kind) == [kind |-> kind, mode |-> 0]
Status(mode) == [kind |-> "status", mode |-> mode]

\* the statuses the device sent since the upload began, in order
StatusesSeen == SelectSeq(log, LAMBDA e : e.kind = "status")

lifecycleVars ==
  <<session, idleVars, transport, pc, inflight, args, counters, pre, lastCall,
    idleWrote, proto, queryVars>>

\* add_gp_callback(callback)
add_gp_callback(cb) ==
  /\ Len(_gp_callbacks) + Len(_nordic_callbacks) < MaxCallbacks
  /\ cb \notin Range(_gp_callbacks)
  /\ _gp_callbacks' = Append(_gp_callbacks, cb)
  /\ ev' = Ev("add_gp_callback", "ok")
  /\ UNCHANGED <<lifecycleVars, _nordic_callbacks, notif, latches, queue,
                 uploadVars, streamVars>>

\* add_nordic_callback(callback)
add_nordic_callback(cb) ==
  /\ Len(_gp_callbacks) + Len(_nordic_callbacks) < MaxCallbacks
  /\ cb \notin Range(_nordic_callbacks)
  /\ _nordic_callbacks' = Append(_nordic_callbacks, cb)
  /\ ev' = Ev("add_nordic_callback", "ok")
  /\ UNCHANGED <<lifecycleVars, _gp_callbacks, notif, latches, queue,
                 uploadVars, streamVars>>

\* the transport delivers a packet of the subscribed primary channel:
\* _gp_notification_handler(sender, data)
_gp_notification_handler(data) ==
  /\ is_connected(client) /\ "gp" \in subs
  /\ LET d == Iterate(Dispatch(_gp_callbacks), 1, data)
     IN /\ _gp_callbacks' = d.list
        /\ _transfer_ready' = d.ready
        /\ _transfer_complete' = d.complete
        /\ _transfer_error' = d.error
        /\ queue' = d.queue
        /\ notif' = [ch |-> "gp", pkt |-> data, start |-> _gp_callbacks,
                     calls |-> d.calls, propagated |-> d.propagated]
        /\ ev' = Ev("_gp_notification_handler", IF d.propagated THEN "raised" ELSE "ok")
  /\ log' = IF UploadInFlight /\ IsStatus(data) THEN Append(log, Status(data[2])) ELSE log
  /\ arrived' = IF streaming THEN Append(arrived, data) ELSE arrived
  /\ UNCHANGED <<lifecycleVars, _nordic_callbacks, up, streaming, yielded, abandoned>>

\* _nordic_notification_handler(sender, data)
_nordic_notification_handler(data) ==
  /\ is_connected(client) /\ "nordic" \in subs
  /\ LET d == Iterate(Dispatch(_nordic_callbacks), 1, data)
     IN /\ _nordic_callbacks' = d.list
        /\ _transfer_ready' = d.ready
        /\ _transfer_complete' = d.complete
        /\ _transfer_error' = d.error
        /\ queue' = d.queue
        /\ notif' = [ch |-> "nordic", pkt |-> data, start |-> _nordic_callbacks,
                     calls |-> d.calls, propagated |-> d.propagated]
        /\ ev' = Ev("_nordic_notification_handler", IF d.propagated THEN "raised" ELSE "ok")
  /\ UNCHANGED <<lifecycleVars, _gp_callbacks, uploadVars, streamVars>>

\* a Session after its first connect() returned, on the device it was given
ConnectedInit ==
  /\ device = "f1"
  /\ client = 1
  /\ _connected = TRUE
  /\ _idle_task = "sleep"
  /\ idle_cancel = FALSE
  /\ link = [h \in Handles |-> IF h = 1 THEN "live" ELSE "new"]
  /\ handleDev = [h \in Handles |-> IF h = 1 THEN "f1" ELSE NoDevice]
  /\ subs = {"gp", "nordic", "rssi"}
  /\ nHandles = 1
  /\ tasksStarted = 1
  /\ pc = "idle"
  /\ inflight = "none"
  /\ args = NoArgs
  /\ scans = 0
  /\ scanned = << >>
  /\ attempts = 1
  /\ closes = 0
  /\ tx = 0
  /\ rssiFailed = FALSE
  /\ pre = [conn |-> FALSE, client |-> NoClient, device |-> "f1", handles |-> 0,
            tasks |-> 0, lastCall |-> "none", live |-> FALSE]
  /\ lastCall = "connect"
  /\ ev = Ev("connect", "ok")
  /\ ExtInit

\* packets the device sends on the two notify channels
DispatchPackets == {<<FURBY_MESSAGE, 6>>, <<SENSOR_STATUS, 1>>}

DispatchNext ==
  \/ \E cb \in UserCallbacks : add_gp_callback(cb)
  \/ \E cb \in UserCallbacks : add_nordic_callback(cb)
  \/ \E data \in DispatchPackets : _gp_notification_handler(data)
  \/ \E data \in DispatchPackets : _nordic_notification_handler(data)

SpecDispatch == ConnectedInit /\ [][DispatchNext]_vars

----------------------------------------------------------------------------
(* FurbyProtocol: packet builders and parsers       protocol.py 158-275  *)

\* GeneralPlusCommand
TRIGGER_SPECIFIC_ACTION == 19
SET_ANTENNA_COLOR == 20
SET_NAME == 33
SET_MOODMETER == 35
ANNOUNCE_DLC_UPLOAD == 80
LOAD_DLC == 96
ACTIVATE_DLC == 97
DEACTIVATE_DLC == 98
DELETE_DLC_SLOT == 116
LCD_DEBUG_MENU == 219
LCD_BACKLIGHT == 205

\* NordicCommand
PACKET_ACK == 9

\* FurbyMessage
RESPONSE_PLAYED == 6

MAX_PACKET_SIZE == 20

\* the values of the FurbyMessage members: 0x01..0x1B without 0x09
FurbyMessageCodes == (1 .. 8) \cup (10 .. 27)

\* the values of the MoodMeterType members
MoodMeterTypes == 0 .. 4

\* bytes([...]): every element must be in range(256)
Bytes(list) ==
  IF \A i \in 1 .. Len(list) : list[i] \in 0 .. 255
  THEN Ok(list)
  ELSE Raise("ValueError")

Flag(enabled) == IF enabled THEN 1 ELSE 0

\* the antenna packet with green and blue exchanged
build_antenna_command_swapped(red, green, blue) ==
  Bytes(<<SET_ANTENNA_COLOR, red, blue, green>>)

build_antenna_command(red, green, blue) ==
  Bytes(<<SET_ANTENNA_COLOR, red, green, blue>>)

build_action_command(input, index, subindex, specific) ==
  Bytes(<<TRIGGER_SPECIFIC_ACTION, 0, input, index, subindex, specific>>)

build_lcd_command(enabled) == Bytes(<<LCD_BACKLIGHT, Flag(enabled)>>)

build_debug_menu_command == Bytes(<<LCD_DEBUG_MENU>>)

build_name_command(name_id) == Bytes(<<SET_NAME, name_id>>)

build_moodmeter_command(action, mood_type, value) ==
  Bytes(<<SET_MOODMETER, action, mood_type, value>>)

\* int >> n, for the sizes a file can have
Shr(x, n) == x \div (2 ^ n)

\* mutant: the byte is not masked
Low8_unmasked(x) == x

\* x & 0xFF
Low8(x) == x % 256

\* filename.encode("ascii"): raises on a character above 127
IsAscii(filename) == \A i \in 1 .. Len(filename) : filename[i] \in 0 .. 127

\* encoded[:12] with the slice left out
Truncate12_whole(encoded) == encoded

\* encoded[:12]
Truncate12(encoded) == SubSeq(encoded, 1, Min(12, Len(encoded)))

\* .ljust(12, b"\x00") with the padding left out
Ljust12_unpadded(encoded) == encoded

\* .ljust(12, b"\x00")
Ljust12(encoded) ==
  encoded \o [i \in 1 .. (IF Len(encoded) < 12 THEN 12 - Len(encoded) ELSE 0) |-> 0]

build_dlc_announce_command(size, slot, filename) ==
  IF ~IsAscii(filename) THEN Raise("UnicodeEncodeError")
  ELSE LET size_bytes == <<Low8(Shr(size, 16)), Low8(Shr(size, 8)), Low8(size)>>
           filename_bytes == Ljust12(Truncate12(filename))
       IN Bytes(<<ANNOUNCE_DLC_UPLOAD, 0>> \o size_bytes \o <<slot>>
                  \o filename_bytes \o <<0, 0>>)

\* the load-DLC packet built without its opcode
build_load_dlc_command_bare(slot) == Bytes(<<slot>>)

build_load_dlc_command(slot) == Bytes(<<LOAD_DLC, slot>>)

build_activate_dlc_command == Bytes(<<ACTIVATE_DLC>>)

build_deactivate_dlc_command(slot) == Bytes(<<DEACTIVATE_DLC, slot>>)

build_delete_dlc_command(slot) == Bytes(<<DELETE_DLC_SLOT, slot>>)

build_nordic_packet_ack(enabled) == Bytes(<<PACKET_ACK, Flag(enabled), 0>>)

\* parse_response returning the whole packet as payload
parse_response_whole(data) ==
  IF Len(data) = 0 THEN Raise("ValueError") ELSE Ok(<<data[1], data>>)

\* parse_response(data): (data[0], data[1:])
parse_response(data) ==
  IF Len(data) = 0
  THEN Raise("ValueError")
  ELSE Ok(<<data[1], SubSeq(data, 2, Len(data))>>)

\* is_furby_message(data)
is_furby_message(data) == Len(data) > 0 /\ data[1] = FURBY_MESSAGE

\* what get_furby_message_type returns: a FurbyMessage member, or None
Member(code) == [some |-> TRUE, code |-> code]
None == [some |-> FALSE, code |-> 0]

\* FurbyMessage(value) succeeds for every value
IsFurbyMessageCode_any(code) == TRUE

\* FurbyMessage(value) raises ValueError unless a member has that value
IsFurbyMessageCode(code) == code \in FurbyMessageCodes

\* get_furby_message_type(data)
get_furby_message_type(data) ==
  IF Len(data) >= 2 /\ is_furby_message(data)
  THEN IF IsFurbyMessageCode(data[2]) THEN Ok(Member(data[2])) ELSE Ok(None)
  ELSE Ok(None)

\* "TEST.DLC"
TestDlc == <<84, 69, 83, 84, 46, 68, 76, 67>>

----------------------------------------------------------------------------
(* DLCManager.upload_dlc                                 dlc.py 56-140  *)

\* bytes per write on the file channel
FILE_CHUNK_SIZE == 20

\* chunks of the largest file uploaded
MaxChunks == 2

\* status packets the device sends during one upload
MaxStatuses == 2

\* len(dlc_data) of the files uploaded
FileSizes ==
  {0, FILE_CHUNK_SIZE, FILE_CHUNK_SIZE + 1, MaxChunks * FILE_CHUNK_SIZE}

\* len(dlc_data[offset : offset + FILE_CHUNK_SIZE]) taken over the whole rest
ChunkLen_unsliced(size, offset) == size - offset

\* len(dlc_data[offset : offset + FILE_CHUNK_SIZE])
ChunkLen(size, offset) == Min(FILE_CHUNK_SIZE, size - offset)

\* dlc_path.read_bytes(): the content of a file of that many bytes, every
\* byte told from its neighbours
read_bytes(file_size) == [i \in 1 .. file_size |-> (7 * i) % 256]

\* the slot and the file name the uploads are made with
UploadSlot == 2

\* mutant: dlc_data[offset:]
Slice_toEnd(data, start, stop) == SubSeq(data, start + 1, Len(data))

\* data[start:stop] of a bytes object
Slice(data, start, stop) == SubSeq(data, start + 1, Min(stop, Len(data)))

\* chunk = dlc_data[offset : offset + FILE_CHUNK_SIZE]
Chunk(u) == Slice(read_bytes(u.size), u.offset, u.offset + FILE_CHUNK_SIZE)

\* the finally block with its removal left out
RemoveOnExit_kept(list) == list

\* finally: remove the callback if it is registered
RemoveOnExit(list) == IF "ft" \in Range(list) THEN RemoveFirst(list, "ft") ELSE list

\* if self._transfer_error, ignored
TransferFailed_ignored(error) == FALSE

\* if self._transfer_error: raise RuntimeError(self._transfer_error)
TransferFailed(error) == error # "none"

\* except asyncio.TimeoutError: pass
ReadyTimeoutRaises_swallowed == FALSE

\* except asyncio.TimeoutError: raise RuntimeError(...)
ReadyTimeoutRaises == TRUE

\* upload_dlc raises or returns: the finally block runs
Finish(t, u, res) ==
  /\ up' = [up EXCEPT ![t] = [u EXCEPT !.pc = "idle", !.res = res]]
  /\ _gp_callbacks' = RemoveOnExit(_gp_callbacks)
  /\ ev' = Ev("upload_dlc", res)

\* upload_dlc suspends at the await named by at
Await(t, u, at) ==
  /\ up' = [up EXCEPT ![t] = [u EXCEPT !.pc = at]]
  /\ _gp_callbacks' = _gp_callbacks
  /\ ev' = Ev("upload_dlc", "pending")

\* while offset < file_size: await self.furby._write_file(chunk), which
\* raises before any transport call if the Session is not connected;
\* after the loop: wait for the terminal status
ChunkLoop(t, u) ==
  IF u.offset < u.size
  THEN IF connected
       THEN Await(t, [u EXCEPT !.chunks = Append(@, Chunk(u))], "chunk")
       ELSE Finish(t, u, "Not connected to Furby")
  ELSE Await(t, u, "wait_complete")

\* upload_dlc(dlc_path) from its entry to its first await
UploadCall(t, exists, file_size) ==
  /\ up[t].pc = "idle"
  /\ IF ~exists
     THEN /\ up' = [up EXCEPT ![t].res = "FileNotFoundError",
                                 ![t].gp0 = _gp_callbacks,
                                 ![t].cmd = << >>,
                                 ![t].chunks = << >>]
          /\ ev' = Ev("upload_dlc", "FileNotFoundError")
          /\ log' = << >>
          /\ UNCHANGED <<_gp_callbacks, latches>>
     ELSE /\ _transfer_ready' = FALSE
          /\ _transfer_complete' = FALSE
          /\ _transfer_error' = "none"
          /\ log' = << >>
          /\ LET built == build_dlc_announce_command(file_size, UploadSlot, TestDlc)
                 u == [pc |-> "announce", size |-> file_size, offset |-> 0,
                       chunk_count |-> 0, res |-> "none", gp0 |-> _gp_callbacks,
                       cmd |-> built.val, chunks |-> << >>]
                 registered == Append(_gp_callbacks, "ft")
             IN IF built.err # "none"
                THEN /\ up' = [up EXCEPT ![t] = [u EXCEPT !.pc = "idle",
                                                 !.res = built.err]]
                     /\ _gp_callbacks' = RemoveOnExit(registered)
                     /\ ev' = Ev("upload_dlc", built.err)
                ELSE IF connected
                THEN /\ up' = [up EXCEPT ![t] = u]
                     /\ _gp_callbacks' = registered
                     /\ ev' = Ev("upload_dlc", "pending")
                ELSE /\ up' = [up EXCEPT ![t] = [u EXCEPT !.pc = "idle",
                                                 !.res = "Not connected to Furby"]]
                     /\ _gp_callbacks' = RemoveOnExit(registered)
                     /\ ev' = Ev("upload_dlc", "Not connected to Furby")
  /\ UNCHANGED <<lifecycleVars, _nordic_callbacks, notif, queue, streamVars>>

\* await self.furby._write_gp(cmd): write_gatt_char returns or raises
AnnounceDone(t, ok) ==
  /\ up[t].pc = "announce"
  /\ IF ok
     THEN /\ Await(t, up[t], "wait_ready")
          /\ log' = Append(log, Wrote("announce"))
     ELSE /\ Finish(t, up[t], "TransportError")
          /\ log' = log
  /\ UNCHANGED <<lifecycleVars, _nordic_callbacks, notif, latches, queue, streamVars>>

\* asyncio.wait_for(self._transfer_ready.wait(), 10.0) returns
ReadyWaitDone(t) ==
  /\ up[t].pc = "wait_ready"
  /\ _transfer_ready
  /\ ChunkLoop(t, up[t])
  /\ UNCHANGED <<lifecycleVars, _nordic_callbacks, notif, latches, queue, log, streamVars>>

\* mutant: await event.wait() with no timeout around it
WaitIsTimed_never == FALSE

\* asyncio.wait_for(event.wait(), timeout=...): the wait ends when the time
\* is up
WaitIsTimed == TRUE

\* the 10 s pass with the event unset
ReadyTimeout(t) ==
  /\ up[t].pc = "wait_ready"
  /\ ~_transfer_ready
  /\ WaitIsTimed
  /\ IF ReadyTimeoutRaises
     THEN Finish(t, up[t], "Furby did not respond to DLC upload announcement")
     ELSE ChunkLoop(t, up[t])
  /\ UNCHANGED <<lifecycleVars, _nordic_callbacks, notif, latches, queue, log, streamVars>>

\* await self.furby._write_file(chunk): write_gatt_char returns or raises
ChunkDone(t, ok) ==
  /\ up[t].pc = "chunk"
  /\ IF ok
     THEN /\ Await(t, [up[t] EXCEPT
                         !.offset = @ + ChunkLen(up[t].size, up[t].offset),
                         !.chunk_count = @ + 1], "sleep")
          /\ log' = Append(log, Wrote("chunk"))
     ELSE /\ Finish(t, up[t], "TransportError")
          /\ log' = log
  /\ UNCHANGED <<lifecycleVars, _nordic_callbacks, notif, latches, queue, streamVars>>

\* await asyncio.sleep(0.005) returns: next turn of the loop, or leave it
SleepDone(t) ==
  /\ up[t].pc = "sleep"
  /\ ChunkLoop(t, up[t])
  /\ UNCHANGED <<lifecycleVars, _nordic_callbacks, notif, latches, queue, log, streamVars>>

\* asyncio.wait_for(self._transfer_complete.wait(), timeout) returns
CompleteWaitDone(t) ==
  /\ up[t].pc = "wait_complete"
  /\ _transfer_complete
  /\ Finish(t, up[t], IF TransferFailed(_transfer_error) THEN _transfer_error ELSE "ok")
  /\ UNCHANGED <<lifecycleVars, _nordic_callbacks, notif, latches, queue, log, streamVars>>

\* the timeout passes with the event unset
CompleteTimeout(t) ==
  /\ up[t].pc = "wait_complete"
  /\ ~_transfer_complete
  /\ WaitIsTimed
  /\ Finish(t, up[t], "Timeout waiting for upload confirmation")
  /\ UNCHANGED <<lifecycleVars, _nordic_callbacks, notif, latches, queue, log, streamVars>>

\* the link of the current client is lost while the upload runs
UploadLinkDrop ==
  /\ is_connected(client)
  /\ LinkDrop(client)

\* a caller registers its own listener between uploads
UploadAddCallback ==
  /\ ~UploadInFlight
  /\ add_gp_callback("a")

\* packets the device sends on the primary channel during an upload
UploadPackets ==
  {<<FILE_TRANSFER_MODE, m>> : m \in {READY_TO_RECEIVE, FILE_TRANSFER_TIMEOUT,
                                      FILE_RECEIVED_OK, FILE_RECEIVED_ERROR, 7}}
    \cup {<<FILE_TRANSFER_MODE>>, <<SENSOR_STATUS, READY_TO_RECEIVE>>}

\* a status packet, while no more than MaxStatuses were sent in this upload
UploadNotify(data) ==
  /\ UploadInFlight
  /\ IsStatus(data) => Len(StatusesSeen) < MaxStatuses
  /\ _gp_notification_handler(data)

\* the steps of a call after its entry
UploadRun(t) ==
  \/ \E ok \in BOOLEAN : AnnounceDone(t, ok)
  \/ ReadyWaitDone(t)
  \/ ReadyTimeout(t)
  \/ \E ok \in BOOLEAN : ChunkDone(t, ok)
  \/ SleepDone(t)
  \/ CompleteWaitDone(t)
  \/ CompleteTimeout(t)

\* one caller, its uploads one after the other
UploadNext ==
  \/ \E file_size \in FileSizes : UploadCall("u1", TRUE, file_size)
  \/ UploadCall("u1", FALSE, 0)
  \/ UploadRun("u1")
  \/ \E data \in UploadPackets : UploadNotify(data)
  \/ UploadLinkDrop
  \/ UploadAddCallback

SpecUpload == ConnectedInit /\ [][UploadNext]_vars

\* uploads to a device that answers with any status, known or not, file-
\* already-exists among them, or not at all, on a link that may be lost
UploadLiveNext ==
  \/ \E file_size \in {0, FILE_CHUNK_SIZE + 1, MaxChunks * FILE_CHUNK_SIZE} :
       UploadCall("u1", TRUE, file_size)
  \/ UploadRun("u1")
  \/ \E m \in {FILE_ALREADY_EXISTS, READY_TO_RECEIVE, FILE_TRANSFER_TIMEOUT,
               FILE_RECEIVED_OK, FILE_RECEIVED_ERROR, 7} :
       UploadNotify(<<FILE_TRANSFER_MODE, m>>)
  \/ UploadLinkDrop

\* transport writes complete and timers fire: a call that is suspended at an
\* await is resumed
SpecUploadLive ==
  ConnectedInit /\ [][UploadLiveNext]_vars /\ WF_vars(UploadRun("u1"))

\* two callers of upload_dlc on the same DLCManager, nothing serialising them
ConcurrentNext ==
  \/ \E t \in Uploaders : UploadCall(t, TRUE, FILE_CHUNK_SIZE)
  \/ \E t \in Uploaders : UploadRun(t)
  \/ \E m \in {READY_TO_RECEIVE, FILE_RECEIVED_OK} : UploadNotify(<<FILE_TRANSFER_MODE, m>>)

SpecConcurrent == ConnectedInit /\ [][ConcurrentNext]_vars

\* files too large to be uploaded chunk by chunk here: 2^24 bytes and more
LargeFileSizes == {16777216, 16777237, 33554432 + 65536 + 20}

\* the device answers the announce of a file the upload of which can be
\* followed to its end, with ready-to-receive and received-ok
AnnounceAnswered(m) ==
  /\ up["u1"].size <= MaxChunks * FILE_CHUNK_SIZE
  /\ UploadNotify(<<FILE_TRANSFER_MODE, m>>)

\* uploads of small files followed to their end, and of large files
\* followed up to the announce, which the device leaves unanswered
AnnounceNext ==
  \/ \E file_size \in FileSizes \cup LargeFileSizes : UploadCall("u1", TRUE, file_size)
  \/ UploadRun("u1")
  \/ \E m \in {READY_TO_RECEIVE, FILE_RECEIVED_OK} : AnnounceAnswered(m)

SpecAnnounce == ConnectedInit /\ [][AnnounceNext]_vars

----------------------------------------------------------------------------
(* FurbyConnect.sensor_stream                          furby.py 384-406  *)

\* packets delivered to one stream
MaxPackets == 3

\* bytes.hex(): two hexadecimal digits per byte, high digit first
RECURSIVE Hex(_)
Hex(data) ==
  IF data = << >> THEN << >>
  ELSE <<Head(data) \div 16, Head(data) % 16>> \o Hex(Tail(data))

\* SensorData(timestamp=time.time(), raw_data=data.hex())
SensorData(data) == [raw_data |-> Hex(data)]

\* the consumer asks for the first item: the generator body runs up to its
\* first await queue.get()
StreamStart ==
  /\ ~streaming
  /\ streaming' = TRUE
  /\ queue' = << >>
  /\ _gp_callbacks' = Append(_gp_callbacks, "sensor")
  /\ arrived' = << >>
  /\ yielded' = << >>
  /\ abandoned' = FALSE
  /\ ev' = Ev("sensor_stream", "waiting")
  /\ UNCHANGED <<lifecycleVars, _nordic_callbacks, notif, latches, uploadVars>>

\* data = await queue.get(); yield SensorData(...)
StreamYield ==
  /\ streaming
  /\ ~abandoned
  /\ queue # << >>
  /\ yielded' = Append(yielded, SensorData(Head(queue)))
  /\ queue' = Tail(queue)
  /\ ev' = Ev("sensor_stream", "yield")
  /\ UNCHANGED <<lifecycleVars, dispatchVars, latches, uploadVars, streaming, arrived,
                 abandoned>>

\* mutant: the generator has no finally block
Finally_skipped(cbs) == cbs

\* finally: self._gp_callbacks.remove(sensor_callback)
Finally(cbs) == RemoveFirst(cbs, "sensor")

\* the consumer closes the generator: the finally block runs
StreamClose ==
  /\ streaming
  /\ streaming' = FALSE
  /\ _gp_callbacks' = Finally(_gp_callbacks)
  /\ abandoned' = FALSE
  /\ ev' = Ev("sensor_stream", "closed")
  /\ UNCHANGED <<lifecycleVars, _nordic_callbacks, notif, latches, queue, uploadVars,
                 arrived, yielded>>

\* packets the device sends on the primary channel
StreamPackets ==
  {<<SENSOR_STATUS, 1>>, <<SENSOR_STATUS, 2>>, <<FURBY_MESSAGE, 6>>, << >>}

\* a packet arrives, at most MaxPackets of them for one stream
StreamNotify(data) ==
  /\ Len(arrived) < MaxPackets
  /\ _gp_notification_handler(data)

\* other listeners on the channel: one that returns, one that raises
StreamNext ==
  \/ StreamStart
  \/ StreamYield
  \/ StreamClose
  \/ \E data \in StreamPackets : StreamNotify(data)
  \/ \E cb \in {"a", "r"} : add_gp_callback(cb)

SpecStream == ConnectedInit /\ [][StreamNext]_vars

\* the consumer leaves its async for loop (break, or an exception in the loop
\* body) and drops the generator without closing it
StreamAbandon ==
  /\ streaming
  /\ ~abandoned
  /\ abandoned' = TRUE
  /\ ev' = Ev("sensor_stream", "abandoned")
  /\ UNCHANGED <<lifecycleVars, dispatchVars, latches, queue, uploadVars, streaming,
                 arrived, yielded>>

\* the event loop's asynchronous-generator finalizer closes the dropped
\* generator: GeneratorExit is raised at the await or the yield it is
\* suspended on and the finally block runs
StreamFinalize ==
  /\ streaming
  /\ abandoned
  /\ streaming' = FALSE
  /\ abandoned' = FALSE
  /\ _gp_callbacks' = Finally(_gp_callbacks)
  /\ ev' = Ev("sensor_stream", "finalized")
  /\ UNCHANGED <<lifecycleVars, _nordic_callbacks, notif, latches, queue, uploadVars,
                 arrived, yielded>>

\* the link drops while the stream is open
StreamLinkDrop ==
  /\ is_connected(client)
  /\ LinkDrop(client)

\* a sensor stream, its consumer, and the Session being disconnected under it
StreamLifeNext ==
  \/ StreamStart
  \/ StreamYield
  \/ StreamClose
  \/ StreamAbandon
  \/ StreamFinalize
  \/ \E data \in {<<SENSOR_STATUS, 1>>, <<FURBY_MESSAGE, 6>>} : StreamNotify(data)
  \/ add_gp_callback("a")
  \/ DisconnectCall
  \/ IdleCancelled
  \/ DisconnectDone
  \/ StreamLinkDrop

\* asyncio finalizes a dropped asynchronous generator: the loop schedules
\* aclose() when it is collected, and asyncio.run closes those left at shutdown
SpecStreamLife ==
  ConnectedInit /\ [][StreamLifeNext]_vars /\ WF_vars(StreamFinalize)

----------------------------------------------------------------------------
(* Claims about notification dispatch *)

\* how many times x occurs in the sequence q
Count(q, x) == Cardinality({i \in 1 .. Len(q) : q[i] = x})

\* the callback list of the channel the last packet arrived on, as it is now
ListOf(ch) == IF ch = "gp" THEN _gp_callbacks ELSE _nordic_callbacks

Dispatched == notif.ch # "none"

\* C12: when a registered callback raises while a packet is dispatched, the
\* exception does not reach the transport and every callback registered
\* after it on that channel is still invoked with that packet.
C12_RaisingCallbackIsIsolated ==
  Dispatched =>
     /\ ~notif.propagated
     /\ \A i \in 1 .. Len(notif.start) :
          notif.start[i] = "r" /\ "r" \in Range(notif.calls) =>
             \A j \in i + 1 .. Len(notif.start) : notif.start[j] \in Range(notif.calls)

\* C13: a packet is delivered exactly once to every callback registered on
\* its channel, in registration order, and to no callback that is
\* registered only on the other channel.
C13_OncePerCallbackInOrder ==
  Dispatched =>
     /\ SelectSeq(notif.calls, LAMBDA c : c \in Range(notif.start)) = notif.start
     /\ Range(notif.calls) \subseteq Range(notif.start) \cup Range(ListOf(notif.ch))

\* C14: when callbacks add or remove callbacks on the list being dispatched,
\* every callback that was registered when the dispatch started and has not
\* been removed is invoked exactly once: none skipped, none invoked twice.
C14_MutationDuringDispatchIsSafe ==
  Dispatched =>
     \A c \in Range(notif.start) :
        c \in Range(ListOf(notif.ch)) => Count(notif.calls, c) = 1

----------------------------------------------------------------------------
(* Claims about upload_dlc *)

\* the caller of SpecUpload
U == up["u1"]

\* upload_dlc has just returned or raised
Returned == ev.op = "upload_dlc" /\ ev.res # "pending"

Ceil(n, d) == (n + d - 1) \div d

\* how many writes of that kind the upload made
Writes(kind) == Cardinality({i \in 1 .. Len(log) : log[i] = Wrote(kind)})

\* index in the log of the first entry e, 0 if there is none
FirstAt(e) ==
  IF \E i \in 1 .. Len(log) : log[i] = e
  THEN CHOOSE i \in 1 .. Len(log) : log[i] = e /\ \A j \in 1 .. i - 1 : log[j] # e
  ELSE 0

\* the call ended because a write raised
WriteRaised == ev.res \in {"TransportError", "Not connected to Furby"}

\* the device sent ready-to-receive after the announce was written
ReadyAfterAnnounce ==
  /\ FirstAt(Wrote("announce")) > 0
  /\ FirstAt(Status(READY_TO_RECEIVE)) > FirstAt(Wrote("announce"))

\* terminal statuses the device sent during the upload
Terminal ==
  SelectSeq(StatusesSeen, LAMBDA e : e.mode \in {FILE_RECEIVED_OK, FILE_RECEIVED_ERROR,
                                                 FILE_TRANSFER_TIMEOUT})

\* the one terminal status came after every write of the upload
TerminalAfterWrites(mode) ==
  /\ Terminal = <<Status(mode)>>
  /\ log[Len(log)] = Status(mode)

\* C15: when the device answers the announce with ready-to-receive and,
\* after the last chunk, with received-ok (and no write raises), upload_dlc
\* returns successfully, having written exactly one announce and exactly
\* ceil(fileSize / 20) chunks, the announce before any chunk and no chunk
\* before the ready status.
C15_AnsweredUploadSucceeds ==
  /\ Returned
  /\ ~WriteRaised
  /\ StatusesSeen = <<Status(READY_TO_RECEIVE), Status(FILE_RECEIVED_OK)>>
  /\ ReadyAfterAnnounce
  /\ TerminalAfterWrites(FILE_RECEIVED_OK)
  => /\ ev.res = "ok"
     /\ Writes("announce") = 1
     /\ Writes("chunk") = Ceil(U.size, FILE_CHUNK_SIZE)
     /\ \A i \in 1 .. Len(log) :
          log[i] = Wrote("chunk") =>
             /\ FirstAt(Wrote("announce")) < i
             /\ FirstAt(Status(READY_TO_RECEIVE)) < i

C15_Witness ==
  /\ Returned
  /\ ev.res = "ok"
  /\ U.size = FILE_CHUNK_SIZE + 1
  /\ StatusesSeen = <<Status(READY_TO_RECEIVE), Status(FILE_RECEIVED_OK)>>
  /\ ReadyAfterAnnounce
  /\ TerminalAfterWrites(FILE_RECEIVED_OK)

\* the announce was written, the ready status received and every chunk sent
ChunksSent ==
  /\ Writes("announce") = 1
  /\ Status(READY_TO_RECEIVE) \in Range(log)
  /\ U.offset >= U.size

\* C16: once the chunks are sent, a received-error or file-transfer-timeout
\* status in place of received-ok makes upload_dlc fail with the error of
\* that status, and no terminal status within the completion timeout makes
\* it fail with the upload-timeout error; it never returns success then.
C16_BadTerminalStatusFails ==
  Returned /\ ChunksSent =>
     /\ TerminalAfterWrites(FILE_RECEIVED_ERROR) => ev.res = "File transfer failed"
     /\ TerminalAfterWrites(FILE_TRANSFER_TIMEOUT) => ev.res = "File transfer timeout"
     /\ Terminal = << >> => ev.res = "Timeout waiting for upload confirmation"

C16_Witness ==
  /\ Returned
  /\ ChunksSent
  /\ U.size = FILE_CHUNK_SIZE + 1
  /\ TerminalAfterWrites(FILE_RECEIVED_ERROR)
  /\ ev.res = "File transfer failed"

\* C17: when no ready-to-receive status arrives within the ready timeout
\* after the announce, upload_dlc fails with the not-acknowledged error and
\* has written nothing on the file channel.
C17_NoReadyMeansNotAcknowledged ==
  /\ Returned
  /\ Writes("announce") = 1
  /\ Status(READY_TO_RECEIVE) \notin Range(log)
  => /\ ev.res = "Furby did not respond to DLC upload announcement"
     /\ Writes("chunk") = 0

C17_Witness ==
  /\ Returned
  /\ Writes("announce") = 1
  /\ Status(READY_TO_RECEIVE) \notin Range(log)
  /\ U.size > 0
  /\ ev.res = "Furby did not respond to DLC upload announcement"

\* C18: on every exit path of upload_dlc the file-transfer callback is no
\* longer registered and the primary callback list is what it was before
\* the call.
C18_CallbackRemovedOnEveryExit ==
  Returned =>
     /\ "ft" \notin Range(_gp_callbacks)
     /\ _gp_callbacks = U.gp0

C18_Witness ==
  /\ Returned
  /\ ev.res = "TransportError"
  /\ Writes("chunk") = 1
  /\ U.gp0 = <<"a">>
  /\ _gp_callbacks = <<"a">>

\* C19: at most one transfer is in flight per DLCManager: a second
\* upload_dlc on the same instance never runs while a first is between its
\* announce and its outcome (so it cannot reset or set the first one's
\* latches).
C19_OneTransferInFlight ==
  \A t \in Uploaders : \A u \in Uploaders \ {t} :
     ~(up[t].pc # "idle" /\ up[u].pc # "idle")

----------------------------------------------------------------------------
(* Claims about sensor_stream *)

\* the packet's first byte is the sensor-status opcode 0x21
HasSensorOpcode(data) == data # << >> /\ Head(data) = 33

\* C20: of the primary-channel packets delivered while a sensor stream is
\* consumed, the stream yields exactly those whose first byte is 0x21, once
\* each and in arrival order (those not yet yielded wait in its queue);
\* packets with another opcode and empty packets yield nothing.
C20_StreamYieldsSensorPacketsInOrder ==
  streaming =>
     yielded \o [i \in 1 .. Len(queue) |-> SensorData(queue[i])]
        = [i \in 1 .. Len(SelectSeq(arrived, HasSensorOpcode)) |->
              SensorData(SelectSeq(arrived, HasSensorOpcode)[i])]

C20_Witness ==
  /\ streaming
  /\ queue = << >>
  /\ arrived = <<<<33, 2>>, <<32, 6>>, << >>>>
  /\ yielded = <<[raw_data |-> <<2, 1, 0, 2>>]>>
  /\ "r" \in Range(_gp_callbacks)

----------------------------------------------------------------------------
(* Calls of FurbyProtocol with sample arguments *)

\* byte arguments tried: 0 .. MaxLow, 128 and 255
MaxLow == 1

\* longest filename tried
MaxNameLen == 13

\* second bytes tried in inbound packets: 0 .. MaxCode and 255
MaxCode == 28

ByteSamples == (0 .. MaxLow) \cup {128, 255}

\* len(dlc_data) values, below and above 2^24
SizeSamples == {0, 12345, 65536, 16777215, 16777474}

\* filenames as code points: "", "ABCDEFGHIJK" and longer ones, "TEST.DLC",
\* and one with an e-acute
NameSamples ==
  {[i \in 1 .. n |-> 64 + i] : n \in {0} \cup (11 .. MaxNameLen)}
    \cup {TestDlc, <<84, 233>>}

\* inbound packets
DataSamples ==
  {<< >>, <<FURBY_MESSAGE>>, <<SENSOR_STATUS>>, <<FURBY_MESSAGE, 6, 1, 2>>}
    \cup {<<o, c>> : o \in {FURBY_MESSAGE, SENSOR_STATUS}, c \in (0 .. MaxCode) \cup {255}}

nonProto ==
  <<session, idleVars, transport, pc, inflight, args, counters, pre, lastCall,
    idleWrote, dispatchVars, latches, queue, uploadVars, streamVars, queryVars>>

\* a FurbyProtocol static method was called and returned or raised
Call(fn, arguments, out) == [fn |-> fn, args |-> arguments, out |-> out]

\* nothing but the outcome of the call changes
Pure ==
  /\ ev' = Ev(proto'.fn, proto'.out.err)
  /\ UNCHANGED nonProto

AntennaCall(red, green, blue) ==
  /\ proto' = Call("build_antenna_command", <<red, green, blue>>,
                     build_antenna_command(red, green, blue))
  /\ Pure

ActionCall(input, index, subindex, specific) ==
  /\ proto' = Call("build_action_command", <<input, index, subindex, specific>>,
                     build_action_command(input, index, subindex, specific))
  /\ Pure

LcdCall(enabled) ==
  /\ proto' = Call("build_lcd_command", <<enabled>>, build_lcd_command(enabled))
  /\ Pure

DebugMenuCall ==
  /\ proto' = Call("build_debug_menu_command", << >>, build_debug_menu_command)
  /\ Pure

NameCall(name_id) ==
  /\ proto' = Call("build_name_command", <<name_id>>, build_name_command(name_id))
  /\ Pure

MoodmeterCall(action, mood_type, value) ==
  /\ proto' = Call("build_moodmeter_command", <<action, mood_type, value>>,
                     build_moodmeter_command(action, mood_type, value))
  /\ Pure

AnnounceCall(size, slot, filename) ==
  /\ proto' = Call("build_dlc_announce_command", <<size, slot, filename>>,
                     build_dlc_announce_command(size, slot, filename))
  /\ Pure

LoadDlcCall(slot) ==
  /\ proto' = Call("build_load_dlc_command", <<slot>>, build_load_dlc_command(slot))
  /\ Pure

ActivateDlcCall ==
  /\ proto' = Call("build_activate_dlc_command", << >>, build_activate_dlc_command)
  /\ Pure

DeactivateDlcCall(slot) ==
  /\ proto' = Call("build_deactivate_dlc_command", <<slot>>, build_deactivate_dlc_command(slot))
  /\ Pure

DeleteDlcCall(slot) ==
  /\ proto' = Call("build_delete_dlc_command", <<slot>>, build_delete_dlc_command(slot))
  /\ Pure

PacketAckCall(enabled) ==
  /\ proto' = Call("build_nordic_packet_ack", <<enabled>>, build_nordic_packet_ack(enabled))
  /\ Pure

ParseCall(data) ==
  /\ proto' = Call("parse_response", <<data>>, parse_response(data))
  /\ Pure

MessageTypeCall(data) ==
  /\ proto' = Call("get_furby_message_type", <<data>>, get_furby_message_type(data))
  /\ Pure

ProtocolNext ==
  \/ \E r \in ByteSamples, g \in ByteSamples, b \in ByteSamples : AntennaCall(r, g, b)
  \/ \E a \in ByteSamples, b \in ByteSamples, c \in {0, 255}, d \in {0, 255} :
        ActionCall(a, b, c, d)
  \/ \E e \in BOOLEAN : LcdCall(e)
  \/ DebugMenuCall
  \/ \E n \in ByteSamples : NameCall(n)
  \/ \E a \in {0, 1}, m \in MoodMeterTypes, v \in ByteSamples : MoodmeterCall(a, m, v)
  \/ \E size \in SizeSamples, slot \in {2, 255}, f \in NameSamples :
        AnnounceCall(size, slot, f)
  \/ \E slot \in ByteSamples : LoadDlcCall(slot)
  \/ ActivateDlcCall
  \/ \E slot \in ByteSamples : DeactivateDlcCall(slot)
  \/ \E slot \in ByteSamples : DeleteDlcCall(slot)
  \/ \E e \in BOOLEAN : PacketAckCall(e)
  \/ \E data \in DataSamples : ParseCall(data)
  \/ \E data \in DataSamples : MessageTypeCall(data)

SpecProtocol == ConnectedInit /\ [][ProtocolNext]_vars

----------------------------------------------------------------------------
(* Claims about FurbyProtocol *)

\* the function called last
Fn(name) == proto.fn = name

\* the packet it returned
Packet == proto.out.val

Returned_packet == proto.fn # "none" /\ proto.out.err = "none"

\* C24: for all r, g, b in 0..255, build_antenna_command(r, g, b) is the
\* 4-byte packet [0x14, r, g, b].
C24_AntennaPacket ==
  Fn("build_antenna_command") =>
     /\ proto.out.err = "none"
     /\ Len(Packet) = 4
     /\ Packet = <<20, proto.args[1], proto.args[2], proto.args[3]>>

C24_Witness ==
  /\ Fn("build_antenna_command")
  /\ proto.args = <<255, 128, 0>>
  /\ Packet = <<20, 255, 128, 0>>

\* C25: parse_response fails with the empty-packet error exactly when its
\* input has zero length; for every non-empty input it returns (first byte,
\* remaining bytes), so opcode followed by payload gives back the input.
C25_ParseSplitsOpcodeAndPayload ==
  Fn("parse_response") =>
     LET data == proto.args[1]
     IN /\ (proto.out.err = "ValueError") <=> (Len(data) = 0)
        /\ Len(data) > 0 =>
             /\ proto.out.err = "none"
             /\ Packet[1] = Head(data)
             /\ Packet[2] = Tail(data)
             /\ <<Packet[1]>> \o Packet[2] = data

C25_Witness ==
  /\ Fn("parse_response")
  /\ proto.args[1] = <<32, 6, 1, 2>>
  /\ Packet = <<32, <<6, 1, 2>>>>

\* C26: decoding a status message never raises: get_furby_message_type
\* returns the FurbyMessage whose value is the second byte when the packet
\* has at least 2 bytes, first byte 0x20 and a defined code (0x06 gives
\* RESPONSE_PLAYED), and None in every other case: unknown codes, other
\* opcodes, packets shorter than 2 bytes.
C26_StatusDecodingIsTotal ==
  Fn("get_furby_message_type") =>
     LET data == proto.args[1]
         defined == Len(data) >= 2 /\ data[1] = 32 /\ data[2] \in FurbyMessageCodes
     IN /\ proto.out.err = "none"
        /\ defined => Packet = Member(data[2])
        /\ ~defined => Packet = None
        /\ data = <<32, 6>> => Packet = Member(RESPONSE_PLAYED)

C26_Witness ==
  /\ Fn("get_furby_message_type")
  /\ proto.args[1] = <<32, 255>>
  /\ Packet = None

\* the opcode documented for each builder
DocumentedOpcode ==
  [build_action_command |-> 19, build_antenna_command |-> 20,
   build_name_command |-> 33, build_moodmeter_command |-> 35,
   build_dlc_announce_command |-> 80, build_load_dlc_command |-> 96,
   build_activate_dlc_command |-> 97, build_deactivate_dlc_command |-> 98,
   build_delete_dlc_command |-> 116, build_debug_menu_command |-> 219,
   build_lcd_command |-> 205, build_nordic_packet_ack |-> 9]

IsBuilder == proto.fn \in DOMAIN DocumentedOpcode

\* C27: every command builder yields a packet whose first byte is the
\* opcode documented for its kind.
C27_FirstByteIsDocumentedOpcode ==
  IsBuilder /\ proto.out.err = "none" =>
     /\ Len(Packet) >= 1
     /\ Packet[1] = DocumentedOpcode[proto.fn]

C27_Witness ==
  /\ Fn("build_load_dlc_command")
  /\ proto.args = <<255>>
  /\ Packet = <<96, 255>>

\* the arguments of the last call are bytes, and its filename is ASCII
ArgsInRange ==
  IF Fn("build_dlc_announce_command")
  THEN /\ proto.args[1] >= 0
       /\ proto.args[2] \in 0 .. 255
       /\ \A i \in 1 .. Len(proto.args[3]) : proto.args[3][i] \in 0 .. 127
  ELSE IF proto.fn \in {"build_lcd_command", "build_nordic_packet_ack"}
       THEN proto.args[1] \in BOOLEAN
       ELSE \A i \in 1 .. Len(proto.args) : proto.args[i] \in 0 .. 255

\* C28: for all inputs whose fields are in byte range, filenames longer
\* than 12 characters and any file size included, every builder returns a
\* packet of at most 20 bytes.
C28_PacketsFitOneWrite ==
  IsBuilder /\ ArgsInRange =>
     /\ proto.out.err = "none"
     /\ Len(Packet) <= 20
     /\ Len(Packet) <= MAX_PACKET_SIZE

C28_Witness ==
  /\ Fn("build_dlc_announce_command")
  /\ proto.args[1] = 16777474
  /\ Len(proto.args[3]) = 13
  /\ Len(Packet) = 20

\* C29: in the packet built by build_dlc_announce_command(size, slot,
\* filename), byte 0 is the opcode 0x50 and bytes 1, 2 and 3 are the file
\* size in big-endian order.
C29_SizeInBytes1To3 ==
  Fn("build_dlc_announce_command") /\ proto.out.err = "none" =>
     LET size == proto.args[1]
     IN /\ Packet[1] = 80
        /\ Packet[2] = (size \div 65536) % 256
        /\ Packet[3] = (size \div 256) % 256
        /\ Packet[4] = size % 256

\* the filename cut or null-padded to 12 bytes
Name12(filename) == [i \in 1 .. 12 |-> IF i <= Len(filename) THEN filename[i] ELSE 0]

\* C30: in the announce packet, byte 5 is the slot and bytes 6 to 17 are
\* the ASCII filename truncated or null-padded to exactly 12 bytes,
\* followed by two zero bytes, for a total length of 20 bytes.
C30_SlotNameAndTrailer ==
  Fn("build_dlc_announce_command") /\ ArgsInRange =>
     /\ proto.out.err = "none"
     /\ Len(Packet) = 20
     /\ Packet[6] = proto.args[2]
     /\ SubSeq(Packet, 7, 18) = Name12(proto.args[3])
     /\ Packet[19] = 0 /\ Packet[20] = 0

C30_Witness ==
  /\ Fn("build_dlc_announce_command")
  /\ proto.args = <<12345, 2, TestDlc>>
  /\ SubSeq(Packet, 6, 20) = <<2>> \o TestDlc \o <<0, 0, 0, 0, 0, 0>>

----------------------------------------------------------------------------
(* Queries: get_device_info and discover            furby.py 55-70, 333-382 *)

\* what a descriptor read hands back: it raises, or returns these bytes
\* ("Hasbro", "A" between NUL bytes, nothing, a byte that is not UTF-8)
ReadOutcomes ==
  {Raise("BleakError"), Ok(<<72, 97, 115, 98, 114, 111>>), Ok(<<0, 65, 0, 0>>),
   Ok(<< >>), Ok(<<255>>)}

\* data.decode("utf-8"): bytes below 0x80 decode to themselves, bytes from
\* 0xF8 up occur in no UTF-8 sequence (ReadOutcomes holds no other bytes)
decode(data) ==
  IF \E i \in 1 .. Len(data) : data[i] >= 248 THEN Raise("UnicodeDecodeError")
  ELSE Ok(data)

RECURSIVE lstrip(_)
lstrip(str) == IF str # << >> /\ Head(str) = 0 THEN lstrip(Tail(str)) ELSE str

RECURSIVE rstrip(_)
rstrip(str) ==
  IF str # << >> /\ str[Len(str)] = 0 THEN rstrip(SubSeq(str, 1, Len(str) - 1)) ELSE str

\* str.strip("\x00")
strip(str) == rstrip(lstrip(str))

\* the body of one try block: data = await read_gatt_char(...);
\* info.<field> = data.decode("utf-8").strip("\x00")
TryRead(outcome) ==
  IF outcome.err # "none" THEN outcome
  ELSE IF decode(outcome.val).err # "none" THEN decode(outcome.val)
  ELSE Ok(strip(decode(outcome.val).val))

\* mutant: the except clause lets the exception through
Caught_never(e) == FALSE

\* except Exception as e: logger.warning(...)
Caught(e) == e \in {"BleakError", "UnicodeDecodeError"}

queryRest ==
  <<session, idleVars, transport, pc, inflight, args, counters, lastCall, idleWrote,
    dispatchVars, latches, queue, uploadVars, streamVars, proto, naming>>

\* get_device_info up to the first await
InfoCall ==
  /\ info.pc = 0
  /\ pre' = Snapshot
  /\ found' = NoFound
  /\ IF WriteRefused
     THEN /\ info' = [NoInfo EXCEPT !.out = "Not connected to Furby"]
          /\ ev' = Ev("get_device_info", "RuntimeError")
     ELSE /\ info' = [NoInfo EXCEPT !.pc = 1, !.out = "pending"]
          /\ ev' = Ev("get_device_info", "reading")
  /\ UNCHANGED queryRest

\* one read_gatt_char completes; after the sixth, return info
InfoReadDone(outcome) ==
  /\ info.pc \in 1 .. Len(InfoFields)
  /\ is_connected(client) \/ outcome.err # "none"
  /\ LET r == TryRead(outcome)
         k == info.pc
         last == k = Len(InfoFields)
     IN IF r.err = "none"
        THEN /\ info' = [info EXCEPT !.pc = IF last THEN 0 ELSE k + 1,
                                      !.tried = @ \cup {k},
                                      !.result[k] = [set |-> TRUE, val |-> r.val],
                                      !.out = IF last THEN "returned" ELSE @]
             /\ ev' = Ev("get_device_info", IF last THEN "returned" ELSE "reading")
        ELSE IF Caught(r.err)
        THEN /\ info' = [info EXCEPT !.pc = IF last THEN 0 ELSE k + 1,
                                      !.tried = @ \cup {k},
                                      !.failed = @ \cup {k},
                                      !.out = IF last THEN "returned" ELSE @]
             /\ ev' = Ev("get_device_info", IF last THEN "returned" ELSE "reading")
        ELSE /\ info' = [info EXCEPT !.pc = 0, !.tried = @ \cup {k},
                                      !.failed = @ \cup {k}, !.out = r.err]
             /\ ev' = Ev("get_device_info", r.err)
  /\ UNCHANGED <<queryRest, pre, found>>

\* def discover(timeout: float = 10.0): the one keyword the signature binds.
\* A call passing show_all= raises TypeError before the body runs.
DiscoverAccepts(show_all) == show_all = "absent"

\* FurbyConnect.discover(timeout) or, as cli.scan calls it,
\* FurbyConnect.discover(timeout=timeout, show_all=all); devices is what
\* BleakScanner.discover returns
DiscoverCall(show_all, devices) ==
  /\ info.pc = 0
  /\ pre' = Snapshot
  /\ info' = NoInfo
  /\ IF DiscoverAccepts(show_all)
     THEN /\ found' = [show_all |-> show_all, scan |-> devices,
                       out |-> Ok(discover(devices))]
          /\ ev' = Ev("discover", "returned")
     ELSE /\ found' = [show_all |-> show_all, scan |-> devices,
                       out |-> Raise("TypeError")]
          /\ ev' = Ev("discover", "TypeError")
  /\ UNCHANGED queryRest

\* the link drops while the queries run
QueryLinkDrop ==
  /\ is_connected(client)
  /\ LinkDrop(client)

QueryNext ==
  \/ InfoCall
  \/ \E outcome \in ReadOutcomes : InfoReadDone(outcome)
  \/ \E show_all \in {"absent", "true", "false"}, devices \in ScanResults :
       DiscoverCall(show_all, devices)
  \/ QueryLinkDrop

SpecQuery == ConnectedInit /\ [][QueryNext]_vars

----------------------------------------------------------------------------
(* Claims about the queries *)

\* the reads of the last get_device_info call whose descriptor was unreadable
Unreadable == info.failed

\* get_device_info was called on a Connected Session
InfoOnConnected == pre.conn /\ pre.live

\* C22: on a Connected Session get_device_info() returns normally whichever
\* of the six descriptor reads fail; exactly the failing fields are left
\* empty, every readable field is populated, and all six reads are attempted
C22_DeviceInfoSurvivesFailedReads ==
  /\ (ev.op = "get_device_info" /\ InfoOnConnected)
       => ev.res \in {"reading", "returned"}
  /\ (ev = Ev("get_device_info", "returned") /\ InfoOnConnected)
       => /\ info.tried = 1 .. Len(InfoFields)
          /\ \A k \in 1 .. Len(InfoFields) : info.result[k].set <=> k \notin Unreadable
  /\ (ev.op = "get_device_info" /\ InfoOnConnected /\ info.pc > 0)
       => info.tried = 1 .. (info.pc - 1)

\* the call returned although the first and the fourth read failed
C22_Witness ==
  /\ ev = Ev("get_device_info", "returned")
  /\ InfoOnConnected
  /\ Unreadable = {1, 4}
  /\ info.result[2] = [set |-> TRUE, val |-> <<65>>]
  /\ ~info.result[1].set

\* discover was called with filtering on: the default, or show_all=False
FilteringOn == found.show_all \in {"absent", "false"}

\* C23: discover returns, in scan order, exactly the scanned devices whose
\* name contains "Furby" when filtering is on and every scanned device when
\* filtering is off, and changes no Session state
C23_DiscoverFiltersOnRequest ==
  ev.op = "discover"
    => /\ FilteringOn
            => found.out = Ok(SelectSeq(found.scan, LAMBDA d : IsFurby(d)))
       /\ ~FilteringOn => found.out = Ok(found.scan)
       /\ Snapshot = pre

----------------------------------------------------------------------------
(* Claims about the end of a sensor stream *)

\* the stream's forwarding callback is on the primary callback list
Forwarding == "sensor" \in Range(_gp_callbacks)

\* a step of the stream's consumer or of the finalizer acting for it
ConsumerStep == ev'.op = "sensor_stream"

\* C21: when the consumer of a sensor stream stops iterating, the forwarding
\* callback is eventually removed from the primary callback list; once it is
\* removed, packets that arrive are not queued for the stream; and the stream
\* ends by no step but the consumer's, a disconnect or a lost link included
C21_AbandonedStreamIsDeregistered ==
  /\ abandoned ~> ~Forwarding
  /\ [](~streaming => ~Forwarding)
  /\ [][(~Forwarding /\ ev'.op = "_gp_notification_handler") => queue' = queue]_vars
  /\ [][(streaming /\ ~ConsumerStep) => (streaming' /\ Forwarding')]_vars

\* the Session was disconnected under an open stream, which stayed open until
\* its consumer dropped it and the finalizer removed the callback
C21_Witness ==
  /\ ev = Ev("sensor_stream", "finalized")
  /\ ~_connected
  /\ ~Forwarding
  /\ queue # << >>
  /\ yielded # << >>

----------------------------------------------------------------------------
(* C33 .. C35: the Session after connect() *)

\* connect() has just raised for one of the reasons it raises for itself:
\* no Furby in the scan, or a failure of the transport connect or of a
\* subscription
ConnectRaised == ev.op = "connect" /\ ev.res \in {"NoFurby", "ConnectionFailed"}

\* the keepalive task is started, not finished and not cancelled
IdleAlive == _idle_task \in {"sleep", "write"} /\ ~idle_cancel

\* C33: whenever connect() raises (empty scan, transport connect failure,
\* failure of the primary or secondary subscription after the link was
\* opened) the Session is Disconnected, no keepalive task is running and no
\* transport link is left open
C33_FailedConnectLeavesNothingOpen ==
  ConnectRaised =>
     /\ ~_connected
     /\ ~IdleAlive
     /\ LiveHandles = {}

\* C34: whenever connect() returns without raising, the connected property
\* is true, also when the link was lost since the previous successful
\* connect and disconnect() was not called
C34_ReturnedConnectMeansConnected ==
  ev = Ev("connect", "ok") => connected

\* C35: whenever the Session is Connected after a successful connect() its
\* keepalive task is alive: started, not finished, not cancelled
C35_ConnectedHasLiveKeepalive ==
  ConnectedNow => IdleAlive

----------------------------------------------------------------------------
(* C31, C36 .. C38: what upload_dlc writes and when it succeeds *)

RECURSIVE Concat(_)
Concat(seqs) == IF seqs = << >> THEN << >> ELSE Head(seqs) \o Concat(Tail(seqs))

\* the chunk loop of the current upload has run to its end
LoopDone == U.pc = "wait_complete" \/ (Returned /\ ev.res = "ok")

\* C31: the chunks upload_dlc writes on the file channel are, in order,
\* consecutive slices of the file: each of exactly 20 bytes except possibly
\* the last (1 to 20 bytes), none empty, their concatenation the file
\* content; a file of length zero produces no chunk write
C31_ChunksAreConsecutiveSlices ==
  LET data == read_bytes(U.size)
      all == Concat(U.chunks)
  IN /\ Len(all) <= U.size
     /\ all = SubSeq(data, 1, Len(all))
     /\ \A i \in 1 .. Len(U.chunks) :
          \/ Len(U.chunks[i]) = 20
          \/ /\ i = Len(U.chunks)
             /\ Len(U.chunks[i]) \in 1 .. 20
             /\ Len(all) = U.size
     /\ LoopDone => all = data
     /\ U.size = 0 => U.chunks = << >>

\* a file of 21 bytes went out as a chunk of 20 bytes and a chunk of 1 byte
C31_Witness ==
  /\ LoopDone
  /\ U.size = 21
  /\ Len(U.chunks) = 2
  /\ Len(U.chunks[2]) = 1
  /\ U.chunks[2] = <<147>>

\* index in the log of the last chunk written, 0 if none was
LastChunkAt ==
  IF \E i \in 1 .. Len(log) : log[i] = Wrote("chunk")
  THEN CHOOSE i \in 1 .. Len(log) :
         log[i] = Wrote("chunk") /\ \A j \in i + 1 .. Len(log) : log[j] # Wrote("chunk")
  ELSE 0

\* C36: upload_dlc returns success only if a received-ok status was
\* delivered after the last chunk had been written
C36_SuccessNeedsOkAfterLastChunk ==
  (Returned /\ ev.res = "ok") =>
     \E i \in 1 .. Len(log) : log[i] = Status(FILE_RECEIVED_OK) /\ i > LastChunkAt

\* the device has reported received-error or file-transfer-timeout
ErrorReported ==
  \E i \in 1 .. Len(log) :
     log[i] \in {Status(FILE_RECEIVED_ERROR), Status(FILE_TRANSFER_TIMEOUT)}

\* C37: once the device has reported received-error or file-transfer-timeout
\* during an upload, upload_dlc writes no further chunk on the file channel
C37_NoChunkAfterError ==
  [][ErrorReported => Len(up'["u1"].chunks) <= Len(U.chunks)]_vars

\* the size the announce packet carries: the three bytes that follow the
\* opcode and the zero byte, most significant first
SizeField(cmd) == cmd[3] * 65536 + cmd[4] * 256 + cmd[5]

\* bytes written on the file channel by the current upload
BytesWritten == Len(Concat(U.chunks))

\* upload_dlc was called on an existing file and built its announce
Announced == ev.op = "upload_dlc" /\ ev.res # "FileNotFoundError"

\* C38: for a file of fewer than 2^24 bytes the 3-byte size field of the
\* announce packet equals the number of bytes upload_dlc then writes on the
\* file channel; for a larger file it holds the size modulo 2^24 and no
\* error is raised
C38_SizeFieldMatchesBytesWritten ==
  Announced =>
     /\ Len(U.cmd) = 20
     /\ ev.res \notin {"ValueError", "OverflowError"}
     /\ SizeField(U.cmd) = U.size % 16777216
     /\ U.size < 16777216 => SizeField(U.cmd) = U.size
     /\ (U.size < 16777216 /\ LoopDone) => SizeField(U.cmd) = BytesWritten

\* a file of 21 bytes went out in full under an announce that says 21
C38_Witness ==
  /\ Announced
  /\ LoopDone
  /\ U.size = 21
  /\ BytesWritten = 21
  /\ SubSeq(U.cmd, 1, 6) = <<80, 0, 0, 0, 21, 2>>

\* a file of 2^24 + 21 bytes was announced as one of 21 bytes
C38_WitnessLarge ==
  /\ Announced
  /\ U.pc = "wait_ready"
  /\ U.size = 16777237
  /\ SizeField(U.cmd) = 21

\* C40: every upload_dlc call eventually returns or raises, whatever the
\* device does (no answer, only statuses that are unknown or not terminal,
\* a Session that disconnects in mid-transfer), provided transport writes
\* complete and timers fire: at each of its awaits the call can be resumed,
\* and it does end
C40_UploadTerminates ==
  /\ [](U.pc # "idle" => ENABLED UploadRun("u1"))
  /\ (U.pc # "idle") ~> (U.pc = "idle")

\* the device answered the announce with file-already-exists only, and the
\* call ended on the ready timeout
C40_Witness ==
  /\ Returned
  /\ ev.res = "Furby did not respond to DLC upload announcement"
  /\ notif.pkt = <<FILE_TRANSFER_MODE, FILE_ALREADY_EXISTS>>
  /\ U.size > 0

----------------------------------------------------------------------------
(* set_name(self, name_id)                             furby.py 304-315  *)

nameRest ==
  <<session, idleVars, transport, pc, inflight, args, counters, lastCall, idleWrote,
    dispatchVars, latches, queue, uploadVars, streamVars, proto, found, info>>

\* set_name raises e, or returns ("ok")
NameReturn(n, e) ==
  /\ naming' = [n EXCEPT !.pc = "idle", !.out = e]
  /\ ev' = Ev("set_name", e)

\* await self._write_gp(cmd): refused before any transport call if the
\* Session is not connected, else handed to write_gatt_char
NameWrite(n, cmd, at) ==
  IF cmd.err # "none" THEN NameReturn(n, cmd.err)
  ELSE IF WriteRefused THEN NameReturn(n, "NotConnected")
  ELSE /\ naming' = [n EXCEPT !.pc = at, !.writes = Append(@, cmd.val),
                              !.out = "pending"]
       /\ ev' = Ev("set_name", "pending")

\* mutant: the action is triggered before the name is set
FirstCommand_action(name_id) == build_action_command(33, 0, 0, name_id)

\* cmd = FurbyProtocol.build_name_command(name_id)
FirstCommand(name_id) == build_name_command(name_id)

\* set_name(name_id) up to its first await
SetNameCall(name_id) ==
  /\ naming.pc = "idle"
  /\ NameWrite([NoNaming EXCEPT !.id = name_id, !.conn = connected],
               FirstCommand(name_id), "name")
  /\ UNCHANGED <<nameRest, pre>>

\* the write of the name packet returns or raises; then
\* trigger_action(input=0x21, index=0, subindex=0, specific=name_id)
NameWritten(ok) ==
  /\ naming.pc = "name"
  /\ IF ok
     THEN NameWrite(naming, build_action_command(33, 0, 0, naming.id), "action")
     ELSE NameReturn(naming, "TransportError")
  /\ UNCHANGED <<nameRest, pre>>

\* the write of the action packet returns or raises
ActionWritten(ok) ==
  /\ naming.pc = "action"
  /\ NameReturn(naming, IF ok THEN "ok" ELSE "TransportError")
  /\ UNCHANGED <<nameRest, pre>>

\* the link is lost before or during the call
NameLinkDrop ==
  /\ is_connected(client)
  /\ LinkDrop(client)

NameNext ==
  \/ \E name_id \in ByteSamples : SetNameCall(name_id)
  \/ \E ok \in BOOLEAN : NameWritten(ok)
  \/ \E ok \in BOOLEAN : ActionWritten(ok)
  \/ NameLinkDrop
  \/ DisconnectCall
  \/ IdleCancelled
  \/ DisconnectDone

SpecName == ConnectedInit /\ [][NameNext]_vars

\* the two packets of set_name(id)
NamePackets(id) == <<<<33, id>>, <<19, 0, 33, 0, 0, id>>>>

\* C32: set_name(id) on a Connected Session issues exactly two writes on the
\* primary channel, the name packet [0x21, id] and then the action packet
\* [0x13, 0x00, 0x21, 0, 0, id]; on a Session that is not Connected it
\* issues no write and fails with NotConnected
C32_SetNameWritesNameThenAction ==
  ev.op = "set_name" =>
     /\ Len(naming.writes) <= 2
     /\ naming.writes = SubSeq(NamePackets(naming.id), 1, Len(naming.writes))
     /\ ev.res = "ok" => naming.writes = NamePackets(naming.id)
     /\ naming.conn => Len(naming.writes) >= 1
     /\ ~naming.conn => (ev.res = "NotConnected" /\ naming.writes = << >>)

\* set_name(128) returned after its two writes
C32_Witness ==
  /\ ev = Ev("set_name", "ok")
  /\ naming.conn
  /\ naming.writes = <<<<33, 128>>, <<19, 0, 33, 0, 0, 128>>>>

----------------------------------------------------------------------------
(* Callbacks across disconnect() and connect()         furby.py 72-148   *)

\* the link of the current client is lost
ReconnectLinkDrop ==
  /\ is_connected(client)
  /\ LinkDrop(client)

\* a Session with listeners that return ("a") or raise ("r"), registered at
\* any time, disconnected and connected again, on links that deliver packets
\* once the channel is subscribed
ReconnectNext ==
  \/ \E cb \in {"a", "r"} : add_gp_callback(cb)
  \/ add_nordic_callback("a")
  \/ _gp_notification_handler(<<SENSOR_STATUS, 1>>)
  \/ _nordic_notification_handler(<<FURBY_MESSAGE, 6>>)
  \/ DisconnectCall
  \/ IdleCancelled
  \/ DisconnectDone
  \/ ConnectCall("none", 0)
  \/ \E ok \in BOOLEAN : ConnDone(ok)
  \/ \E ok \in BOOLEAN : SubGpDone(ok)
  \/ \E ok \in BOOLEAN : SubNordicDone(ok)
  \/ \E ok \in BOOLEAN : SubRssiDone(ok)
  \/ ReconnectLinkDrop

SpecReconnect == ConnectedInit /\ [][ReconnectNext]_vars

\* a notification handler has just run
JustDispatched == ev.op \in {"_gp_notification_handler", "_nordic_notification_handler"}

\* C39: disconnect() and connect(), successful or failed, leave both
\* callback lists as they are, so a callback registered before a
\* disconnect/reconnect cycle is still registered after it, in the same
\* position; and a packet of any link, the new one included, is handed to
\* every callback of its channel's list, in list order
C39_CallbacksSurviveReconnect ==
  /\ [][ev'.op \in {"connect", "disconnect"}
         => /\ _gp_callbacks' = _gp_callbacks
            /\ _nordic_callbacks' = _nordic_callbacks]_vars
  /\ [](JustDispatched => (notif.calls = notif.start /\ ListOf(notif.ch) = notif.start))

\* after disconnect() and connect() a packet of the second link reached the
\* two listeners of the primary channel in their order of registration
C39_Witness ==
  /\ JustDispatched
  /\ pre.lastCall = "disconnect"
  /\ lastCall = "connect"
  /\ client = 2
  /\ notif.ch = "gp"
  /\ notif.start = <<"r", "a">>
  /\ notif.calls = <<"r", "a">>
  /\ _nordic_callbacks = <<"a">>

====
